---- MODULE Spec2Model ----
(***************************************************************************)
(* Model of brightwheel-downloader: the sqlite store (database/__init__.py),*)
(* the API client (brightwheel/__init__.py), the metadata and media runs   *)
(* of the CLI (download.py) and the media processors                       *)
(* (processors/__init__.py).                                               *)
(*                                                                         *)
(* Strings that the code takes apart (URLs, file names) are sequences of   *)
(* tokens; "/" "?" and "." are tokens of their own, so split('/'),         *)
(* split('?'), splitext and glob('name*') are computed as the code does.   *)
(* Python's None and the empty string are both the empty sequence << >>    *)
(* wherever the code only tests truthiness.                                *)
(***************************************************************************)
EXTENDS Integers, Sequences, FiniteSets, TLC

VARIABLES
    db,         \* the sqlite file and connection: activities, auth, lastrowid
    disk,       \* set of file names present on disk
    pc,         \* position of the running command
    error,      \* exception that ended the command ("" while none)
    call,       \* record of the last store / processor call and its result
    run,        \* locals of the dl_metadata / save_metadata run
    net,        \* HTTP requests sent by the client in this run, in order
    media       \* locals of the dl_media run

vars == <<db, disk, pc, error, call, run, net, media>>

----------------------------------------------------------------------------
(* Bounds of the model *)

MaxCalls == 4
MaxPages == 2
MaxProcess == 2

----------------------------------------------------------------------------
(* Generic helpers *)

None == << >>

Truthy(s) == s # << >>

Max(S) == CHOOSE m \in S : \A x \in S : x <= m


----------------------------------------------------------------------------
(* Activities as returned by the remote feed.  media and video_info are   *)
(* JSON values: null, an empty object, or an object with the fields the   *)
(* code reads.                                                             *)

Students == {"stu1", "stu2"}
ActivityIds == {"a1", "a2", "a3"}

JNull == [kind |-> "null"]
JMissing == [kind |-> "missing"]
JEmpty == [kind |-> "empty"]

\* Python truthiness of a JSON value: null and {} are falsy
JTruthy(j) == j.kind = "dict"

ImgJpgUrl == <<"https:", "/", "cdn", "/", "img1", ".", "jpg", "?", "sig">>
ImgDataUrl == <<"https:", "/", "cdn", "/", "idA", "/", "data-media", "?", "sig">>
ImgOddUrl == <<"https:", "/", "cdn", "/", "img2", ".", "png">>
VidUrl == <<"https:", "/", "cdn", "/", "u1", "-", "u2", "/", "clip", ".", "mp4", "?", "sig">>

Media(url) == [kind |-> "dict", image_url |-> url]
Video(status, url) ==
    [kind |-> "dict", transcoding_status |-> status, downloadable_url |-> url]

Event(id, date, m, v) ==
    [object_id |-> id, event_date |-> date, action_type |-> "ac_photo",
     media |-> m, video_info |-> v]

\* json.dumps / json.loads of an event
json_dumps(event) == <<"json", event>>
json_loads(text) == text[2]

----------------------------------------------------------------------------
(* The store: database/__init__.py.  The statements under queries/*.sql    *)
(* are not part of the sources; they are modelled from the specification:  *)
(* activities(id unique, student_id, event_date, action_type, json,        *)
(* processed), auth(login unique, cookie); insert_activity ignores an      *)
(* existing id, insert_auth_cookie_by_login replaces.                      *)

EmptyDB == [activities |-> {}, auth |-> {}, lastrowid |-> 0]

NextRowid(table) ==
    IF table = {} THEN 1 ELSE Max({r.rowid : r \in table}) + 1

\* DB.__init__: a new connection on the file; setup keeps the tables
Connect(d) == [d EXCEPT !.lastrowid = 0]

\* mutant: INSERT OR REPLACE, a present row is replaced by a new one
SqlInsertActivityReplace(d, p) ==
    LET kept == {r \in d.activities : r.id # p.id}
        rid == NextRowid(d.activities)
    IN [d EXCEPT !.activities = kept \cup
            {[rowid |-> rid, id |-> p.id, student_id |-> p.student_id,
              event_date |-> p.event_date, action_type |-> p.action_type,
              json |-> p.json, processed |-> FALSE]},
                 !.lastrowid = rid]

\* queries/insert_activity.sql
SqlInsertActivity(d, p) ==
    IF \E r \in d.activities : r.id = p.id
    THEN d
    ELSE LET rid == NextRowid(d.activities)
         IN [d EXCEPT !.activities = @ \cup
                {[rowid |-> rid, id |-> p.id, student_id |-> p.student_id,
                  event_date |-> p.event_date, action_type |-> p.action_type,
                  json |-> p.json, processed |-> FALSE]},
                      !.lastrowid = rid]

\* queries/update_activity_processed.sql
SqlUpdateActivityProcessed(d, p) ==
    [d EXCEPT !.activities =
        {IF r.id = p.id THEN [r EXCEPT !.processed = TRUE] ELSE r : r \in @}]

\* queries/delete_activities_by_student_id.sql
SqlDeleteActivitiesByStudentId(d, p) ==
    [d EXCEPT !.activities = {r \in @ : r.student_id # p.student_id}]

\* queries/insert_auth_cookie_by_login.sql
SqlInsertAuthCookieByLogin(d, p) ==
    LET kept == {r \in d.auth : r.login # p.login}
        rid == NextRowid(d.auth)
    IN [d EXCEPT !.auth = kept \cup
            {[rowid |-> rid, login |-> p.login, cookie |-> p.cookie]},
                 !.lastrowid = rid]

\* queries/select_activities_to_process.sql
SqlSelectActivitiesToProcess(d) == {r \in d.activities : ~r.processed}

\* queries/select_auth_cookie_by_login.sql
SqlSelectAuthCookieByLogin(d, p) == {r \in d.auth : r.login = p.login}

\* DB._modify: execute, commit, return cursor.lastrowid.  sqlite3 sets the
\* cursor's lastrowid from the connection's last insert rowid after every
\* execute, so a statement that inserts nothing returns the rowid of the
\* connection's previous successful insert (0 when there was none).
modify(d, query, p) ==
    LET d2 == CASE query = "insert_activity" -> SqlInsertActivity(d, p)
                [] query = "update_activity_processed" ->
                        SqlUpdateActivityProcessed(d, p)
                [] query = "delete_activities_by_student_id" ->
                        SqlDeleteActivitiesByStudentId(d, p)
                [] query = "insert_auth_cookie_by_login" ->
                        SqlInsertAuthCookieByLogin(d, p)
    IN [db |-> d2, ret |-> d2.lastrowid]

\* DB.insert_activity
insert_activity(d, student_id, event) ==
    LET res == modify(d, "insert_activity",
                      [id |-> event.object_id, student_id |-> student_id,
                       event_date |-> event.event_date,
                       action_type |-> event.action_type,
                       json |-> json_dumps(event)])
    IN [db |-> res.db, ret |-> res.ret > 0]

\* DB.select_activities
select_activities(d) == SqlSelectActivitiesToProcess(d)

\* mutant: the row is left unprocessed
update_activity_noop(d, activity_id) == d

\* mutant: the update has no WHERE clause, every row is marked
update_activity_all(d, activity_id) ==
    [d EXCEPT !.activities = {[r EXCEPT !.processed = TRUE] : r \in @}]

\* DB.update_activity
update_activity(d, activity_id) ==
    modify(d, "update_activity_processed", [id |-> activity_id]).db

\* mutant: the rows of every student are removed
delete_activities_all(d, student_id) == [d EXCEPT !.activities = {}]

\* DB.delete_activities
delete_activities(d, student_id) ==
    modify(d, "delete_activities_by_student_id",
           [student_id |-> student_id]).db

\* DB.select_cookie: the cookie of the first row, None without a row
select_cookie(d, login) ==
    LET rows == SqlSelectAuthCookieByLogin(d, [login |-> login])
    IN IF rows = {} THEN None ELSE (CHOOSE r \in rows : TRUE).cookie

\* DB.insert_cookie
insert_cookie(d, login, value) ==
    modify(d, "insert_auth_cookie_by_login",
           [login |-> login, cookie |-> value]).db

----------------------------------------------------------------------------
(* Values the remote feed serves *)

EventPool ==
    { Event("a1", "D1", Media(ImgJpgUrl), JNull),
      Event("a1", "D1", JNull, JNull),
      Event("a2", "D1", JNull, Video("complete", VidUrl)),
      Event("a3", "D2", JNull, Video("processing", None)),
      Event("a3", "D2", JNull, Video("complete", VidUrl)) }

Logins == {"amy@example.com"}
Tokens == {<<"tokA">>, <<"tokB">>}

NoCall == [op |-> "none", n |-> 0]
NoRun == [phase |-> "none"]
NoMedia == [phase |-> "none"]

----------------------------------------------------------------------------
(* SpecStore: the store's interface called in any order on one file,       *)
(* starting from the file as DB.__init__ creates it.  Reconnect is a new   *)
(* process opening the same file.                                          *)

InitStore ==
    /\ db = EmptyDB
    /\ disk = {}
    /\ pc = "store"
    /\ error = ""
    /\ call = NoCall
    /\ run = NoRun
    /\ net = << >>
    /\ media = NoMedia

StoreFrame == UNCHANGED <<disk, pc, error, run, net, media>>

InsertActivity ==
    /\ pc = "store" /\ call.n < MaxCalls
    /\ \E s \in Students, e \in EventPool :
        LET res == insert_activity(db, s, e)
        IN /\ db' = res.db
           /\ call' = [op |-> "insert_activity", n |-> call.n + 1,
                       id |-> e.object_id,
                       present |-> \E r \in db.activities : r.id = e.object_id,
                       ret |-> res.ret]
    /\ StoreFrame

MarkProcessed ==
    /\ pc = "store" /\ call.n < MaxCalls
    /\ \E a \in ActivityIds :
        /\ db' = update_activity(db, a)
        /\ call' = [op |-> "update_activity", n |-> call.n + 1, id |-> a]
    /\ StoreFrame

DeleteActivities ==
    /\ pc = "store" /\ call.n < MaxCalls
    /\ \E s \in Students :
        /\ db' = delete_activities(db, s)
        /\ call' = [op |-> "delete_activities", n |-> call.n + 1, id |-> s]
    /\ StoreFrame

SetToken ==
    /\ pc = "store" /\ call.n < MaxCalls
    /\ \E l \in Logins, t \in Tokens :
        /\ db' = insert_cookie(db, l, t)
        /\ call' = [op |-> "insert_cookie", n |-> call.n + 1, id |-> l]
    /\ StoreFrame

Reconnect ==
    /\ pc = "store" /\ call.n < MaxCalls
    /\ db' = Connect(db)
    /\ call' = [op |-> "connect", n |-> call.n + 1]
    /\ StoreFrame

NextStore ==
    \/ InsertActivity
    \/ MarkProcessed
    \/ DeleteActivities
    \/ SetToken
    \/ Reconnect

SpecStore == InitStore /\ [][NextStore]_vars

\* C1: for any sequence of InsertActivity calls the store holds one row per
\* distinct activity identifier, and InsertActivity returns true only for
\* the first insert of an identifier: an insert of an identifier that is
\* already present returns false and leaves exactly one row for it, also
\* after other activities were inserted on the same connection.
C1_InsertReturnsTrueOnlyWhenNew ==
    /\ \A r1, r2 \in db.activities : r1.id = r2.id => r1 = r2
    /\ call.op = "insert_activity" =>
         /\ Cardinality({r \in db.activities : r.id = call.id}) = 1
         /\ call.ret = ~call.present

----------------------------------------------------------------------------
(* The API client: brightwheel/__init__.py.  A response is the status and  *)
(* body that session.request returns for one request.                      *)

NotJson == [kind |-> "notjson"]

Statuses == {200, 304, 404, 500}

\* mutant: only server errors raise
raise_for_status_5xx(status) == status >= 500 /\ status < 600

\* requests' Response.raise_for_status: HTTPError for 4xx and 5xx only
raise_for_status(status) == status >= 400 /\ status < 600

\* Client._call: one request, raise_for_status, then the decoded body
client_call(resp) ==
    IF raise_for_status(resp.status)
    THEN [err |-> "HTTPError", json |-> NotJson]
    ELSE IF resp.body.kind = "notjson"
         THEN [err |-> "JSONDecodeError", json |-> NotJson]
         ELSE [err |-> "", json |-> resp.body]

\* An error status is served with a body the client never decodes
Responses(bodies) ==
    [status : {200, 304}, body : bodies \cup {NotJson}]
        \cup [status : Statuses \ {200, 304}, body : {NotJson}]

Request(verb, url, page, has_2fa_code) ==
    [verb |-> verb, url |-> url, page |-> page, has_2fa_code |-> has_2fa_code]

\* Bodies of the endpoints
StartBodies == {[kind |-> "json", twofa_required |-> b] : b \in BOOLEAN}
SessionBodies == {[kind |-> "json", set_cookie |-> t] : t \in Tokens}
MeBodies == {[kind |-> "json", object_id |-> "g1"]}

\* What the user types at the "Enter MFA code: " prompt
MfaInputs == {<< >>, <<"123456">>}

----------------------------------------------------------------------------
(* Student lookup: download.py fetch_student_id.  Names and the --student  *)
(* value are sequences of characters, `in` is Python's substring test.     *)

Samuel == <<"S", "a", "m", "u", "e", "l">>
Samantha == <<"S", "a", "m", "a", "n", "t", "h", "a">>
Lee == <<"L", "e", "e">>
Ortiz == <<"O", "r", "t", "i", "z">>

\* the text of a student's identifier
IdText(id) == <<id>>

StudentRec(id, first, last) ==
    [student |-> [object_id |-> id, first_name |-> first, last_name |-> last]]

StudentLists ==
    { << >>,
      <<StudentRec("stu1", Samuel, Lee)>>,
      <<StudentRec("stu1", Samuel, Lee), StudentRec("stu2", Samantha, Ortiz)>> }

StudentBodies == {[kind |-> "json", students |-> l] : l \in StudentLists}

StudentArgs ==
    { <<"S", "a", "m">>, <<"l", " ", "L">>, <<"Z", "o", "e">>, IdText("stu1") }

\* Python's `a in b` on strings
StrIn(a, b) ==
    \E i \in 1..(Len(b) + 1) :
        /\ i + Len(a) - 1 <= Len(b)
        /\ SubSeq(b, i, i + Len(a) - 1) = a

FullName(x) == x.student.first_name \o <<" ">> \o x.student.last_name

\* the list comprehension of fetch_student_id
matched_students(students, student) ==
    SelectSeq(students, LAMBDA x : StrIn(student, FullName(x)))

\* mutant: several matches, the first one is taken
fetch_student_id_first(students, student) ==
    LET m == matched_students(students, student)
    IN IF m = << >>
       THEN [err |-> "SystemExit", student_id |-> ""]
       ELSE [err |-> "", student_id |-> m[1].student.object_id]

\* fetch_student_id after the students request returned
fetch_student_id(students, student) ==
    IF students = << >>
    THEN [err |-> "SystemExit", student_id |-> ""]
    ELSE LET m == matched_students(students, student)
         IN IF m = << >>
            THEN [err |-> "SystemExit", student_id |-> ""]
            ELSE IF Len(m) > 1
                 THEN [err |-> "SystemExit", student_id |-> ""]
                 ELSE [err |-> "", student_id |-> m[1].student.object_id]

----------------------------------------------------------------------------
(* Pages of the activity feed.  A page is given by its length and a short  *)
(* pattern of events that it repeats.                                      *)

page_size == 25

PageLens == {0, page_size - 1, page_size}

Patterns ==
    { <<Event("a1", "D1", Media(ImgJpgUrl), JNull)>>,
      <<Event("a3", "D2", JNull, Video("processing", None)),
        Event("a2", "D1", JNull, Video("complete", VidUrl))>>,
      <<Event("a3", "D2", JNull, Video("complete", VidUrl)),
        Event("a3", "D2", JNull, Video("processing", None))>>,
      <<Event("a1", "D1", JNull, JNull),
        Event("a1", "D1", Media(ImgJpgUrl), JNull),
        Event("a2", "D1", JNull, JEmpty)>> }

Batch(n, pat) == [i \in 1..n |-> pat[((i - 1) % Len(pat)) + 1]]

ActivityBodies ==
    {[kind |-> "json", activities |-> Batch(n, pat)] : n \in PageLens, pat \in Patterns}

\* mutant: every activity with a video is skipped
skip_activity_any_video(activity) == JTruthy(activity.video_info)

\* save_metadata's test of an activity whose video is still processed
skip_activity(activity) ==
    LET video_info == activity.video_info
    IN JTruthy(video_info) /\ video_info.transcoding_status # "complete"

\* the for loop of save_metadata over one batch; st carries the store, the
\* counters, and a record of the insert_activity calls made
RECURSIVE save_batch(_, _, _)
save_batch(st, student_id, batch) ==
    IF batch = << >>
    THEN st
    ELSE LET activity == Head(batch)
         IN IF skip_activity(activity)
            THEN save_batch([st EXCEPT !.skip_count = @ + 1],
                            student_id, Tail(batch))
            ELSE LET res == insert_activity(st.db, student_id, activity)
                 IN save_batch(
                        [st EXCEPT !.db = res.db,
                                   !.new_count = IF res.ret THEN @ + 1 ELSE @,
                                   !.n_insert = @ + 1,
                                   !.n_true = IF res.ret THEN @ + 1 ELSE @,
                                   !.n_fresh = IF \E r \in st.db.activities :
                                                     r.id = activity.object_id
                                               THEN @ ELSE @ + 1,
                                   !.passed = @ \cup {activity}],
                        student_id, Tail(batch))

----------------------------------------------------------------------------
(* Spec: one run of download.py on an existing store file and media        *)
(* directory: the metadata command (dl_metadata) or the media command      *)
(* (dl_media).                                                             *)

\* Store files left by earlier runs
StoredDB1 == insert_cookie(EmptyDB, "amy@example.com", <<"tokA">>)
StoredDB2 ==
    insert_activity(
        insert_activity(StoredDB1, "stu1",
                        Event("a1", "D1", Media(ImgJpgUrl), JNull)).db,
        "stu2", Event("a2", "D1", JNull, Video("complete", VidUrl))).db
StoredDB3 == update_activity(StoredDB2, "a1")

InitialDBs == {Connect(d) : d \in {EmptyDB, StoredDB1, StoredDB2, StoredDB3}}

Init ==
    /\ db \in InitialDBs
    /\ disk = {}
    /\ pc = "idle"
    /\ error = ""
    /\ call = NoCall
    /\ run = NoRun
    /\ net = << >>
    /\ media = NoMedia

MetaFrame == UNCHANGED <<disk, call, media>>

\* an exception leaves the command
Raise(err) == pc' = "failed" /\ error' = err

\* Client.session_auth
session_auth(r) == r.cookie

\* mutant: the stored cookie is adopted even when a login is forced
adopt_cached_ignoring_force(auth, force_login) == Truthy(auth)

\* mutant: a full page ends the loop too
last_page_or_full(batch) == Len(batch) <= page_size

\* Client.__init__: whether the stored cookie is adopted without a login
adopt_cached(auth, force_login) == Truthy(auth) /\ ~force_login

\* save_metadata: the batch that ends the loop
last_page(batch) == Len(batch) < page_size

\* dl_metadata up to the first request of Client.__init__
StartMetadata ==
    /\ pc = "idle"
    /\ \E login \in Logins, student \in StudentArgs,
          headless \in BOOLEAN, clear_events \in BOOLEAN, force_login \in BOOLEAN :
        LET stored_auth == select_cookie(db, login)
            adopt == adopt_cached(stored_auth, force_login)
        IN /\ run' = [phase |-> "metadata", login |-> login, student |-> student,
                      headless |-> headless, clear_events |-> clear_events,
                      force_login |-> force_login, stored_auth |-> stored_auth,
                      cookie |-> IF adopt THEN stored_auth ELSE None,
                      twofa_required |-> FALSE, typed |-> None,
                      mfa_code |-> None, students |-> << >>,
                      activities0 |-> db.activities, seen |-> {},
                      user_id |-> "", student_id |-> "", status |-> 0,
                      page |-> 0, result_count |-> 0, new_count |-> 0,
                      skip_count |-> 0, last_len |-> 0,
                      n_insert |-> 0, n_true |-> 0, n_fresh |-> 0,
                      n_incomplete |-> 0, n_other |-> 0, passed |-> {}]
           /\ IF adopt
              THEN pc' = "users_me" /\ error' = error
              ELSE IF headless
                   THEN Raise("Exception")
                   ELSE pc' = "sessions_start" /\ error' = error
    /\ UNCHANGED <<db, net>>
    /\ MetaFrame

\* Client.__init__: post_sessions_start, then the MFA prompt
PostSessionsStart ==
    /\ pc = "sessions_start"
    /\ \E resp \in Responses(StartBodies), typed \in MfaInputs :
        LET r == client_call(resp)
        IN /\ net' = Append(net, Request("POST", "sessions/start", -1, FALSE))
           /\ IF r.err # ""
              THEN /\ Raise(r.err)
                   /\ run' = [run EXCEPT !.status = resp.status]
              ELSE /\ pc' = "sessions" /\ error' = error
                   /\ run' = [run EXCEPT
                                !.status = resp.status,
                                !.twofa_required = r.json.twofa_required,
                                !.typed = IF r.json.twofa_required
                                          THEN typed ELSE None,
                                !.mfa_code = IF r.json.twofa_required
                                             THEN typed ELSE None]
    /\ UNCHANGED db
    /\ MetaFrame

\* Client.__init__: post_sessions
PostSessions ==
    /\ pc = "sessions"
    /\ \E resp \in Responses(SessionBodies) :
        LET r == client_call(resp)
        IN /\ net' = Append(net, Request("POST", "sessions", -1,
                                         Truthy(run.mfa_code)))
           /\ IF r.err # ""
              THEN /\ Raise(r.err)
                   /\ run' = [run EXCEPT !.status = resp.status]
              ELSE /\ pc' = "users_me" /\ error' = error
                   /\ run' = [run EXCEPT !.status = resp.status,
                                         !.cookie = r.json.set_cookie]
    /\ UNCHANGED db
    /\ MetaFrame

\* Client.__init__: get_users_me; then dl_metadata stores the cookie
GetUsersMe ==
    /\ pc = "users_me"
    /\ \E resp \in Responses(MeBodies) :
        LET r == client_call(resp)
        IN /\ net' = Append(net, Request("GET", "users/me", -1, FALSE))
           /\ IF r.err # ""
              THEN /\ Raise(r.err)
                   /\ run' = [run EXCEPT !.status = resp.status]
                   /\ db' = db
              ELSE /\ pc' = "students" /\ error' = error
                   /\ run' = [run EXCEPT !.status = resp.status,
                                         !.user_id = r.json.object_id]
                   /\ db' = IF ~Truthy(run.stored_auth)
                            THEN insert_cookie(db, run.login, session_auth(run))
                            ELSE db
    /\ MetaFrame

\* dl_metadata: fetch_student_id, then delete_activities when -f is given
GetGuardiansStudents ==
    /\ pc = "students"
    /\ \E resp \in Responses(StudentBodies) :
        LET r == client_call(resp)
            f == fetch_student_id(r.json.students, run.student)
        IN /\ net' = Append(net, Request("GET", "guardians/students", -1, FALSE))
           /\ IF r.err # ""
              THEN /\ Raise(r.err)
                   /\ run' = [run EXCEPT !.status = resp.status]
                   /\ db' = db
              ELSE IF f.err # ""
                   THEN /\ Raise(f.err)
                        /\ run' = [run EXCEPT !.status = resp.status,
                                              !.students = r.json.students]
                        /\ db' = db
                   ELSE /\ pc' = "page" /\ error' = error
                        /\ db' = IF run.clear_events
                                 THEN delete_activities(db, f.student_id)
                                 ELSE db
                        /\ run' = [run EXCEPT !.status = resp.status,
                                              !.students = r.json.students,
                                              !.student_id = f.student_id]
    /\ MetaFrame

\* the claim's own reading of a still-transcoding activity
Incomplete(e) ==
    e.video_info.kind = "dict" /\ e.video_info.transcoding_status # "complete"

CountIncomplete(batch) ==
    Cardinality({i \in DOMAIN batch : Incomplete(batch[i])})

\* save_metadata: one turn of the while loop
GetStudentsActivities ==
    /\ pc = "page"
    /\ run.page < MaxPages
    /\ \E resp \in Responses(ActivityBodies) :
        LET r == client_call(resp)
            batch == r.json.activities
            st == save_batch([db |-> db, new_count |-> run.new_count,
                              skip_count |-> run.skip_count,
                              n_insert |-> run.n_insert, n_true |-> run.n_true,
                              n_fresh |-> run.n_fresh, passed |-> run.passed],
                             run.student_id, batch)
        IN /\ net' = Append(net, Request("GET", "students/activities",
                                         run.page, FALSE))
           /\ IF r.err # ""
              THEN /\ Raise(r.err)
                   /\ run' = [run EXCEPT !.status = resp.status]
                   /\ db' = db
              ELSE /\ db' = st.db
                   /\ error' = error
                   /\ pc' = IF last_page(batch) THEN "done" ELSE "page"
                   /\ run' = [run EXCEPT
                        !.status = resp.status,
                        !.new_count = st.new_count,
                        !.skip_count = st.skip_count,
                        !.result_count = @ + Len(batch),
                        !.last_len = Len(batch),
                        !.page = IF last_page(batch) THEN @ ELSE @ + 1,
                        !.seen = @ \cup {batch[i] : i \in DOMAIN batch},
                        !.n_insert = st.n_insert, !.n_true = st.n_true,
                        !.n_fresh = st.n_fresh, !.passed = st.passed,
                        !.n_incomplete = @ + CountIncomplete(batch),
                        !.n_other = @ + Len(batch) - CountIncomplete(batch)]
    /\ MetaFrame

Next ==
    \/ StartMetadata
    \/ PostSessionsStart
    \/ PostSessions
    \/ GetUsersMe
    \/ GetGuardiansStudents
    \/ GetStudentsActivities

Spec == Init /\ [][Next]_vars

----------------------------------------------------------------------------
(* Properties of the metadata run *)

PageRequests == SelectSeq(net, LAMBDA q : q.url = "students/activities")
LoginRequests == SelectSeq(net, LAMBDA q : q.url \in {"sessions/start", "sessions"})

\* C2: in save_metadata an activity whose video_info is present with a
\* transcoding_status other than "complete" is never passed to
\* insert_activity and counts in skip_count only; every other fetched
\* activity is passed to insert_activity exactly once, and new_count counts
\* exactly the inserts that returned true.
C2_IncompleteVideoSkipped ==
    run.phase = "metadata" =>
        /\ \A e \in run.passed : ~Incomplete(e)
        /\ run.passed = {e \in run.seen : ~Incomplete(e)}
        /\ run.skip_count = run.n_incomplete
        /\ run.n_insert = run.n_other
        /\ run.new_count = run.n_true
        /\ run.result_count = run.n_incomplete + run.n_other

C2_Witness ==
    /\ pc = "done"
    /\ run.skip_count > 0
    /\ run.new_count > 0
    /\ run.n_insert > run.new_count

\* C3: save_metadata requests pages 0, 1, 2, ... in increasing order, each
\* once; it goes on after a full page and stops right after the first page
\* shorter than page_size (an empty one included), requesting no page after.
C3_PaginationStopsAtShortPage ==
    run.phase = "metadata" =>
        /\ \A i \in 1..Len(PageRequests) : PageRequests[i].page = i - 1
        /\ pc = "page" =>
             /\ Len(PageRequests) = run.page
             /\ run.page > 0 => run.last_len = page_size
        /\ pc = "done" =>
             /\ Len(PageRequests) = run.page + 1
             /\ run.last_len < page_size
        /\ (Len(PageRequests) > 0 /\ pc # "failed" /\ run.last_len < page_size)
             => pc = "done"

C3_Witness ==
    /\ pc = "done"
    /\ run.page = 1
    /\ run.last_len = 0
    /\ run.result_count = page_size

\* C7 as claimed: a cached token without forceLogin sends no login request
\* and is adopted; otherwise headless fails before any request, and an
\* interactive login sends login-start, then login-complete with an MFA code
\* exactly when login-start answered that a second factor is required; the
\* identity request follows in every branch that does not fail.
LoginOrder(mfa_sent) ==
    LET cached == Truthy(run.stored_auth) /\ ~run.force_login
    IN run.phase = "metadata" =>
        /\ cached =>
             /\ LoginRequests = << >>
             /\ run.cookie = run.stored_auth
             /\ Len(net) >= 1 => net[1].url = "users/me"
        /\ (~cached /\ run.headless) =>
             /\ pc = "failed" /\ error = "Exception" /\ net = << >>
        /\ (~cached /\ ~run.headless) =>
             /\ pc # "sessions_start" => Len(net) >= 1
             /\ Len(net) >= 1 => net[1].url = "sessions/start"
             /\ Len(net) >= 2 =>
                  /\ net[2].url = "sessions"
                  /\ net[2].has_2fa_code = mfa_sent
             /\ Len(net) >= 3 => net[3].url = "users/me"
        /\ pc \in {"students", "page", "done"} =>
             /\ \E i \in 1..Len(net) : net[i].url = "users/me"
             /\ run.user_id # ""
        /\ Len(LoginRequests) <= 2

C7_LoginOrderAsClaimed == LoginOrder(run.twofa_required)

\* C7, amended: the MFA code is submitted exactly when a second factor is
\* required and the code typed at the prompt is not empty.
C7_LoginOrder == LoginOrder(run.twofa_required /\ run.typed # << >>)

C7_Witness ==
    /\ pc = "students"
    /\ run.force_login /\ Truthy(run.stored_auth)
    /\ Len(net) = 3
    /\ net[2].has_2fa_code

\* C8 as claimed: every client call sends one request, and a response
\* outside 2xx raises HTTPError to the caller: the command ends there, no
\* request follows, and the store keeps what earlier pages inserted.
HttpErrorsEndRun(is_error(_)) ==
    /\ pc = "failed" => UNCHANGED vars
    /\ net' # net =>
         /\ Len(net') = Len(net) + 1
         /\ SubSeq(net', 1, Len(net)) = net
         /\ is_error(run'.status) =>
              /\ pc' = "failed" /\ error' = "HTTPError"
              /\ db' = db
              /\ run'.user_id = run.user_id
              /\ run'.student_id = run.student_id

Non2xx(status) == status < 200 \/ status > 299

Is4xx5xx(status) == status >= 400 /\ status <= 599

C8_Non2xxRaisesAsClaimed == [][HttpErrorsEndRun(Non2xx)]_vars

\* C8, amended: a 4xx or 5xx response raises HTTPError to the caller with
\* no retry (a 3xx response is not raised by raise_for_status).
C8_HttpErrorRaises == [][HttpErrorsEndRun(Is4xx5xx)]_vars

C8_Witness ==
    /\ pc = "failed" /\ error = "HTTPError"
    /\ run.page = 1
    /\ Len(PageRequests) = 2
    /\ db.activities # run.activities0

\* C9: fetch_student_id returns an identifier only when exactly one student
\* matches the --student value by name substring or exact identifier; with
\* no match or several the run exits without a student, and no activity is
\* fetched, inserted or deleted.
ClaimMatches(x, value) ==
    StrIn(value, FullName(x)) \/ value = IdText(x.student.object_id)

MatchingStudents ==
    {i \in DOMAIN run.students : ClaimMatches(run.students[i], run.student)}

StudentsAnswered ==
    /\ run.phase = "metadata"
    /\ \/ pc \in {"page", "done"}
       \/ pc = "failed" /\ error = "SystemExit"
       \/ pc = "failed" /\ PageRequests # << >>

C9_StudentResolvedOnlyIfUnique ==
    StudentsAnswered =>
        /\ run.student_id # "" =>
             /\ Cardinality(MatchingStudents) = 1
             /\ \A i \in MatchingStudents :
                    run.students[i].student.object_id = run.student_id
        /\ Cardinality(MatchingStudents) # 1 =>
             /\ pc = "failed" /\ error = "SystemExit"
             /\ run.student_id = ""
             /\ PageRequests = << >>
             /\ db.activities = run.activities0

C9_Witness ==
    /\ pc = "failed" /\ error = "SystemExit"
    /\ run.student = <<"S", "a", "m">>
    /\ Cardinality(MatchingStudents) = 2
    /\ run.clear_events
    /\ run.activities0 # {}

----------------------------------------------------------------------------
(* File names and URLs: processors/__init__.py and download.py *)

IsPrefix(a, b) == Len(a) <= Len(b) /\ SubSeq(b, 1, Len(a)) = a

Positions(s, t) == {i \in 1..Len(s) : s[i] = t}

\* s.split(sep)[0]
SplitFirst(s, sep) ==
    IF Positions(s, sep) = {} THEN s
    ELSE SubSeq(s, 1, (CHOOSE i \in Positions(s, sep) :
                          \A j \in Positions(s, sep) : i <= j) - 1)

\* s.split(sep)[-1]
SplitLast(s, sep) ==
    IF Positions(s, sep) = {} THEN s
    ELSE SubSeq(s, Max(Positions(s, sep)) + 1, Len(s))

\* s.split(sep)[-2], for s with at least one sep
SplitLast2(s, sep) ==
    LET last == Max(Positions(s, sep))
        before == SubSeq(s, 1, last - 1)
    IN SplitLast(before, sep)

\* s.replace(t, '')
Remove(s, t) == SelectSeq(s, LAMBDA x : x # t)

\* datetime.strftime(strptime(event_date), '%Y%m%d%H%M%SZ')
Stamp(event_date) ==
    IF event_date = "D1" THEN "20240101120000Z" ELSE "20240102120000Z"

\* os.path.join(download_dir, name)
PathJoin(dir, name) == dir \o <<"/">> \o name

\* os.path.splitext on the last path component
SplitExt(path) ==
    LET name == SplitLast(path, "/")
        dots == Positions(name, ".") \ {1}
    IN IF dots = {}
       THEN [root |-> path, ext |-> << >>]
       ELSE LET k == Len(path) - Len(name) + Max(dots)
            IN [root |-> SubSeq(path, 1, k - 1), ext |-> SubSeq(path, k, Len(path))]

\* glob.glob(f'{name}*')
Glob(dk, name) == {f \in dk : IsPrefix(name, f)}

\* ImageProcessor.media_filename
image_media_filename(download_dir, media_url, event_date) ==
    LET url == SplitFirst(media_url, "?")
    IN IF url[Len(url)] = "jpg"
       THEN [err |-> "", name |-> PathJoin(download_dir,
                                  <<Stamp(event_date)>> \o SplitLast(url, "/"))]
       ELSE IF SplitLast(url, "/") = <<"data-media">>
            THEN [err |-> "", name |-> PathJoin(download_dir,
                                  <<Stamp(event_date)>> \o SplitLast2(url, "/"))]
            ELSE [err |-> "Exception", name |-> << >>]

\* VideoProcessor.media_filename
video_media_filename(download_dir, media_url, event_date) ==
    LET url == SplitFirst(media_url, "?")
        video_uuid == Remove(SplitLast2(url, "/"), "-")
        video_ext == SplitLast(SplitLast(url, "/"), ".")
    IN [err |-> "", name |-> PathJoin(download_dir,
                 <<Stamp(event_date)>> \o video_uuid \o <<".">> \o video_ext)]

\* mutant: a null media raises instead of giving no url
image_get_url_uncaught(event) ==
    IF event.media.kind = "null" THEN [err |-> "AttributeError", url |-> None]
    ELSE IF event.media.kind = "dict"
         THEN [err |-> "", url |-> event.media.image_url]
         ELSE [err |-> "", url |-> None]

\* ImageProcessor.get_url: event.get('media', {}).get('image_url'), None
\* when media is null (AttributeError caught)
image_get_url(event) ==
    IF event.media.kind = "dict"
    THEN [err |-> "", url |-> event.media.image_url]
    ELSE [err |-> "", url |-> None]

\* VideoProcessor.get_url
video_get_url(event) ==
    IF event.video_info.kind = "dict"
    THEN [err |-> "", url |-> event.video_info.downloadable_url]
    ELSE [err |-> "", url |-> None]

\* all(lat_lon): None and 0.0 are falsy
AllLatLon(lat, lon) ==
    /\ lat # None /\ lat[1] # 0
    /\ lon # None /\ lon[1] # 0

\* BaseProcessor.write_tags: exiftool exits non-zero when it cannot write
\* the file; always when the file does not exist
write_tags(dk, filename, tool_ok) ==
    IF filename \in dk /\ tool_ok THEN "" ELSE "CalledProcessError"

\* ImageProcessor.set_tags: created_datetime is bound only inside
\* `if all(lat_lon)`, so line 212 raises UnboundLocalError otherwise
image_set_tags(dk, filename, lat, lon, tool_ok) ==
    IF AllLatLon(lat, lon)
    THEN LET lat_hemi == IF lat[1] < 0 THEN "S" ELSE "N"
             lon_hemi == IF lon[1] < 0 THEN "W" ELSE "E"
         IN [err |-> write_tags(dk, filename, tool_ok),
             tool_run |-> TRUE,
             tags |-> <<<<"gpslatitude", lat>>, <<"gpslongitude", lon>>,
                        <<"gpslatituderef", <<lat_hemi>>>>,
                        <<"gpslongituderef", <<lon_hemi>>>>,
                        <<"ModifyDate", <<"local">>>>,
                        <<"OffsetTimeDigitized", <<"local">>>>>>]
    ELSE [err |-> "UnboundLocalError", tool_run |-> FALSE, tags |-> << >>]

\* VideoProcessor.set_tags
video_set_tags(dk, filename, lat, lon, tool_ok) ==
    [err |-> write_tags(dk, filename, tool_ok),
     tool_run |-> TRUE,
     tags |-> (IF AllLatLon(lat, lon)
               THEN <<<<"Keys:GPSCoordinates", lat \o lon>>>>
               ELSE << >>) \o <<<<"CreateDate", <<"utc">>>>>>]

\* BaseProcessor.repair_extension: the name the downloaded file ends up with
repair_extension(content_subtype, old_filename) ==
    LET sp == SplitExt(old_filename)
        extension == IF content_subtype = "jpeg" THEN "jpg" ELSE content_subtype
    IN IF sp.ext = << >>
       THEN sp.root \o <<".", extension>>
       ELSE old_filename

\* BaseProcessor.download: HTTPError before anything is written; otherwise
\* the body is written to filename and the file renamed by repair_extension
download(dk, filename, resp) ==
    IF raise_for_status(resp.status)
    THEN [err |-> "HTTPError", disk |-> dk, name |-> filename]
    ELSE LET new == repair_extension(resp.subtype, filename)
         IN [err |-> "", disk |-> (dk \ {filename}) \cup {new}, name |-> new]

\* BaseProcessor.process.  env is what the outside does during the call:
\* the HTTP response to the download and whether exiftool succeeds.
process(kind, dk, download_dir, raw_data, write, force_dl, lat, lon, env) ==
    LET g == IF kind = "image" THEN image_get_url(raw_data)
             ELSE video_get_url(raw_data)
        base == [disk |-> dk, err |-> "", processed |-> FALSE,
                 downloaded |-> FALSE, tagged |-> FALSE, filename |-> << >>,
                 existed |-> FALSE, ran_download |-> FALSE, ran_tags |-> FALSE,
                 tag_target |-> << >>, tag_err |-> "", tags |-> << >>,
                 tool_run |-> FALSE, emitted |-> << >>]
    IN IF g.err # "" THEN [base EXCEPT !.err = g.err]
       ELSE IF ~Truthy(g.url) THEN base
       ELSE
        LET fn == IF kind = "image"
                  THEN image_media_filename(download_dir, g.url, raw_data.event_date)
                  ELSE video_media_filename(download_dir, g.url, raw_data.event_date)
        IN IF fn.err # "" THEN [base EXCEPT !.err = fn.err]
           ELSE
            LET existed == Glob(dk, fn.name) # {}
                do_dl == ~existed \/ force_dl
                d == IF do_dl THEN download(dk, fn.name, env)
                     ELSE [err |-> "", disk |-> dk, name |-> fn.name]
                s1 == [base EXCEPT !.filename = fn.name, !.existed = existed,
                                   !.ran_download = do_dl]
            IN IF d.err # "" THEN [s1 EXCEPT !.err = d.err]
               ELSE IF ~write
                    THEN [s1 EXCEPT !.disk = d.disk, !.processed = TRUE,
                                    !.downloaded = do_dl]
               ELSE
                LET t == IF kind = "image"
                         THEN image_set_tags(d.disk, d.name, lat, lon, env.tool_ok)
                         ELSE video_set_tags(d.disk, d.name, lat, lon, env.tool_ok)
                    s2 == [s1 EXCEPT !.disk = d.disk, !.downloaded = do_dl,
                                     !.ran_tags = TRUE, !.tag_target = d.name,
                                     !.tag_err = t.err,
                                     !.tool_run = t.tool_run,
                                     !.emitted = t.tags,
                                     !.tags = IF t.err = "" THEN t.tags ELSE << >>]
                IN IF t.err = ""
                   THEN [s2 EXCEPT !.processed = TRUE, !.tagged = TRUE]
                   \* except Exception: os.remove(media_filename); raise e
                   ELSE IF d.name \in d.disk
                        THEN [s2 EXCEPT !.disk = d.disk \ {d.name}, !.err = t.err]
                        ELSE [s2 EXCEPT !.err = "FileNotFoundError"]

----------------------------------------------------------------------------
(* SpecProc: calls of ImageProcessor.process and VideoProcessor.process on *)
(* one download directory, which starts empty.                             *)

DlDir == <<"media", "/", "stu1">>

ProcPayloads ==
    { Event("a1", "D1", Media(ImgJpgUrl), JMissing),
      Event("a1", "D1", Media(ImgDataUrl), JNull),
      Event("a2", "D1", Media(ImgOddUrl), Video("complete", VidUrl)),
      Event("a2", "D1", JNull, Video("processing", VidUrl)),
      Event("a3", "D1", JMissing, JEmpty),
      Event("a3", "D1", Media(None), Video("complete", None)) }

LatLons == { <<None, None>>, <<<<37>>, None>>, <<<<37>>, <<-122>>>>,
             <<<<0>>, <<-122>>>>, <<<<-33>>, <<151>>>> }

ProcEnvs == [status : {200, 404}, subtype : {"jpeg", "png"}, tool_ok : BOOLEAN]

InitProc ==
    /\ db = EmptyDB
    /\ disk = {}
    /\ pc = "processors"
    /\ error = ""
    /\ call = NoCall
    /\ run = NoRun
    /\ net = << >>
    /\ media = NoMedia

ProcessCall(kind) ==
    /\ pc = "processors"
    /\ call.n < MaxProcess
    \* latitude and longitude are read by set_tags only
    /\ \E raw_data \in ProcPayloads, write \in BOOLEAN, force_dl \in BOOLEAN,
          env \in ProcEnvs :
       \E ll \in (IF write THEN LatLons ELSE {<<None, None>>}) :
        LET r == process(kind, disk, DlDir, raw_data, write, force_dl,
                         ll[1], ll[2], env)
        IN /\ disk' = r.disk
           /\ call' = [op |-> "process", n |-> call.n + 1, kind |-> kind,
                       raw_data |-> raw_data, write_tags |-> write,
                       force_dl |-> force_dl, lat |-> ll[1], lon |-> ll[2],
                       disk_before |-> disk, res |-> r]
    /\ UNCHANGED <<db, pc, error, run, net, media>>

ImageProcess == ProcessCall("image")

VideoProcess == ProcessCall("video")

NextProc ==
    \/ ImageProcess
    \/ VideoProcess

SpecProc == InitProc /\ [][NextProc]_vars

----------------------------------------------------------------------------
(* Properties of the processors *)

\* the payload carries a media URL of the processor's kind
HasUrl(kind, raw_data) ==
    IF kind = "image"
    THEN raw_data.media.kind = "dict" /\ raw_data.media.image_url # << >>
    ELSE raw_data.video_info.kind = "dict"
            /\ raw_data.video_info.downloadable_url # << >>

\* file f is `name`, or `name` with an extension added
MatchesAnyExt(f, name) ==
    \/ f = name
    \/ /\ Len(f) = Len(name) + 2
       /\ IsPrefix(name, f)
       /\ f[Len(name) + 1] = "."

\* C5: whenever the tagging step fails while tagging is requested, the file
\* the step was run for is gone from disk afterwards, no file of the
\* computed destination name (with any extension) remains, the error that
\* reaches the caller is the tagging failure itself, and tagged is not
\* reported.
C5_TaggingFailureRemovesFileAndPropagates ==
    (call.op = "process" /\ call.res.ran_tags /\ call.res.tag_err # "") =>
        /\ call.res.tag_target \notin disk
        /\ \A f \in disk : ~MatchesAnyExt(f, call.res.filename)
        /\ call.res.err = call.res.tag_err
        /\ ~call.res.tagged

\* C6: with forceDownload=false and a file matching the computed filename
\* (with any extension) on disk, process downloads nothing and, if writeTags
\* is requested, runs the tagging step on that existing file; with
\* forceDownload=true or no matching file it downloads.
C6_ExistingFileSkipsDownloadStillTags ==
    (call.op = "process" /\ call.res.filename # << >>) =>
        LET matching == {f \in call.disk_before :
                            MatchesAnyExt(f, call.res.filename)}
        IN /\ (~call.force_dl /\ matching # {}) =>
                /\ ~call.res.ran_download
                /\ ~call.res.downloaded
                /\ call.write_tags =>
                     /\ call.res.ran_tags
                     /\ call.res.tag_target \in matching
           /\ (call.force_dl \/ matching = {}) => call.res.ran_download

\* C10: process returns processed=true exactly when the payload carries a
\* media URL of the processor's kind; without one it returns
\* (false, false, false) with no error, download, tagging or disk change;
\* when it returns, downloaded tells whether the download step ran and
\* tagged whether tagging was requested and succeeded.
C10_ProcessResult ==
    call.op = "process" =>
        LET r == call.res
            has == HasUrl(call.kind, call.raw_data)
        IN /\ r.err = "" => (r.processed <=> has)
           /\ ~has =>
                /\ r.err = ""
                /\ ~r.processed /\ ~r.downloaded /\ ~r.tagged
                /\ ~r.ran_download /\ ~r.ran_tags
                /\ disk = call.disk_before
           /\ r.err = "" =>
                /\ r.downloaded <=> r.ran_download
                /\ r.tagged <=> (call.write_tags /\ r.ran_tags /\ r.tag_err = "")
                /\ r.tagged => (r.tag_target \in disk /\ r.tags # << >>)

C10_Witness ==
    /\ call.op = "process"
    /\ call.kind = "image"
    /\ call.raw_data.media.kind = "null"
    /\ call.write_tags /\ call.force_dl
    /\ disk # {}
    /\ call.res.err = ""
    /\ ~call.res.processed

\* the names of the tags in a tag list
TagNames(tags) == {tags[i][1] : i \in DOMAIN tags}

\* the value a tag list gives to a tag name
TagValue(tags, name) ==
    LET i == CHOOSE j \in DOMAIN tags : tags[j][1] = name IN tags[i][2]

\* C11: the video processor treats a payload whose
\* video_info.transcoding_status is not "complete" as carrying no media:
\* process returns processed=false, downloads and tags nothing, leaves the
\* disk alone and raises no error, also when a downloadable_url is present.
C11_IncompleteVideoNotProcessed ==
    (/\ call.op = "process"
     /\ call.kind = "video"
     /\ call.raw_data.video_info.kind = "dict"
     /\ call.raw_data.video_info.transcoding_status # "complete") =>
        /\ call.res.err = ""
        /\ ~call.res.processed /\ ~call.res.downloaded /\ ~call.res.tagged
        /\ ~call.res.ran_download /\ ~call.res.ran_tags
        /\ disk = call.disk_before

\* C12: whenever the image tagging step is run, for every latitude and
\* longitude input (both, one or none supplied, or a supplied 0) it emits
\* the ModifyDate and OffsetTimeDigitized tags and invokes the tagging tool;
\* it emits the GPS latitude/longitude and reference tags exactly when both
\* coordinates are supplied, with reference S/W for a negative coordinate
\* and N/E otherwise.
C12_ImageTagsForEveryLatLon ==
    (call.op = "process" /\ call.kind = "image" /\ call.res.ran_tags) =>
        LET names == TagNames(call.res.emitted)
            both == call.lat # None /\ call.lon # None
            gps == {"gpslatitude", "gpslongitude",
                    "gpslatituderef", "gpslongituderef"}
        IN /\ call.res.tool_run
           /\ {"ModifyDate", "OffsetTimeDigitized"} \subseteq names
           /\ both => gps \subseteq names
           /\ ~both => gps \cap names = {}
           /\ both =>
                /\ TagValue(call.res.emitted, "gpslatituderef")
                     = <<IF call.lat[1] < 0 THEN "S" ELSE "N">>
                /\ TagValue(call.res.emitted, "gpslongituderef")
                     = <<IF call.lon[1] < 0 THEN "W" ELSE "E">>

----------------------------------------------------------------------------
(* SpecMedia: one run of the media command, download.py dl_media, on a     *)
(* store left by earlier metadata and media runs.                          *)

\* download.py _image_filename
_image_filename(download_dir, image_url, event_date) ==
    PathJoin(download_dir,
             <<Stamp(event_date)>> \o SplitFirst(SplitLast(image_url, "/"), "?"))

\* download.py _video_filename
_video_filename(download_dir, video_url, event_date) ==
    LET video_uuid == Remove(SplitLast2(video_url, "/"), "-")
        video_ext == SplitLast(SplitLast(video_url, "/"), ".")
    IN PathJoin(download_dir,
                <<Stamp(event_date)>> \o video_uuid \o <<".">> \o video_ext)

\* download_image / download_video followed by the tagging try block: a
\* failed GET raises before the file is opened; a failed tagging removes the
\* file and raises again
fetch_and_tag(st, filename, skip_exif_tags, got, tagged_ok) ==
    IF ~got
    THEN [st EXCEPT !.err = "ConnectionError"]
    ELSE IF ~skip_exif_tags /\ ~tagged_ok
         THEN [st EXCEPT !.disk = @ \ {filename}, !.err = "CalledProcessError",
                         !.tag_failed = @ \cup {filename}]
         ELSE [st EXCEPT !.disk = @ \cup {filename}, !.dl_count = @ + 1]

\* the body of dl_media's for loop for one activity
dl_activity(st, activity, base_download_dir, skip_exif_tags, env) ==
    LET raw_data == json_loads(activity.json)
        download_dir == PathJoin(base_download_dir, <<activity.student_id>>)
        m == raw_data.media
        v == raw_data.video_info
        s1 == IF JTruthy(m) /\ Truthy(m.image_url)
              THEN fetch_and_tag(st,
                       _image_filename(download_dir, m.image_url,
                                       raw_data.event_date),
                       skip_exif_tags, env.img_get, env.img_tag)
              ELSE st
        s2 == IF s1.err = "" /\ JTruthy(v) /\ Truthy(v.downloadable_url)
              THEN fetch_and_tag(s1,
                       _video_filename(download_dir, v.downloadable_url,
                                       raw_data.event_date),
                       skip_exif_tags, env.vid_get, env.vid_tag)
              ELSE s1
    IN IF s2.err = ""
       THEN [s2 EXCEPT !.db = update_activity(@, activity.id)]
       ELSE s2

RECURSIVE Perms(_)
Perms(S) ==
    IF S = {} THEN {<< >>}
    ELSE UNION {{<<x>> \o p : p \in Perms(S \ {x})} : x \in S}

MediaDB1 ==
    insert_activity(
      insert_activity(
        insert_activity(StoredDB1, "stu1",
                        Event("a1", "D1", Media(ImgJpgUrl), JNull)).db,
        "stu2", Event("a2", "D1", JNull, Video("complete", VidUrl))).db,
      "stu1", Event("a3", "D2", JNull, JNull)).db
MediaDB2 == update_activity(MediaDB1, "a2")
MediaDB3 ==
    insert_activity(StoredDB1, "stu1",
        Event("a1", "D2", Media(ImgDataUrl), Video("complete", VidUrl))).db
MediaDB4 ==
    insert_activity(EmptyDB, "stu2", Event("a3", "D2", JEmpty, JEmpty)).db

InitialMediaDBs ==
    {Connect(d) : d \in {StoredDB1, MediaDB1, MediaDB2, MediaDB3, MediaDB4}}

BaseDir == <<"media">>

MediaEnvs == [img_get : BOOLEAN, img_tag : BOOLEAN,
              vid_get : BOOLEAN, vid_tag : BOOLEAN]

InitMedia ==
    /\ db \in InitialMediaDBs
    /\ disk = {}
    /\ pc = "idle"
    /\ error = ""
    /\ call = NoCall
    /\ run = NoRun
    /\ net = << >>
    /\ media = NoMedia

\* dl_media: the arguments and select_activities
StartMedia ==
    /\ pc = "idle"
    /\ \E skip_exif_tags \in BOOLEAN, ll \in LatLons,
          activities \in Perms(select_activities(db)) :
        media' = [phase |-> "media", skip_exif_tags |-> skip_exif_tags,
                  latitude |-> ll[1], longitude |-> ll[2],
                  activities |-> activities, idx |-> 1, dl_count |-> 0,
                  selected |-> {r.id : r \in select_activities(db)},
                  tag_failed |-> {}]
    /\ pc' = "media_loop"
    /\ UNCHANGED <<db, disk, error, call, run, net>>

\* dl_media: one activity of the for loop
MediaActivity ==
    /\ pc = "media_loop"
    /\ media.idx <= Len(media.activities)
    /\ \E env \in MediaEnvs :
        LET st == dl_activity([db |-> db, disk |-> disk, err |-> "",
                               dl_count |-> media.dl_count,
                               tag_failed |-> media.tag_failed],
                              media.activities[media.idx], BaseDir,
                              media.skip_exif_tags, env)
        IN /\ db' = st.db
           /\ disk' = st.disk
           /\ media' = [media EXCEPT !.dl_count = st.dl_count,
                                     !.tag_failed = st.tag_failed,
                                     !.idx = IF st.err = "" THEN @ + 1 ELSE @]
           /\ IF st.err = ""
              THEN pc' = pc /\ error' = error
              ELSE Raise(st.err)
    /\ UNCHANGED <<call, run, net>>

\* dl_media: the loop is over, the counts are printed
FinishMedia ==
    /\ pc = "media_loop"
    /\ media.idx > Len(media.activities)
    /\ pc' = "done"
    /\ UNCHANGED <<db, disk, error, call, run, net, media>>

NextMedia ==
    \/ StartMedia
    \/ MediaActivity
    \/ FinishMedia

SpecMedia == InitMedia /\ [][NextMedia]_vars

\* C4: when dl_media completes without error, every activity that
\* select_activities returned at its start is marked processed, an activity
\* without image and video URL included, and select_activities is empty.
C4_AllSelectedMarkedProcessed ==
    (media.phase = "media" /\ pc = "done") =>
        /\ \A id \in media.selected :
              \E r \in db.activities : r.id = id /\ r.processed
        /\ select_activities(db) = {}

C4_Witness ==
    /\ media.phase = "media" /\ pc = "done"
    /\ Cardinality(media.selected) = 3
    /\ \E r \in db.activities :
          /\ r.id \in media.selected
          /\ ~JTruthy(json_loads(r.json).media)
          /\ ~JTruthy(json_loads(r.json).video_info)
    /\ media.dl_count = 2

\* the ids select_activities returns
Unprocessed(d) == {r.id : r \in select_activities(d)}

\* C13: during a media run an activity of the batch is marked processed
\* exactly when the loop has finished both its image and its video handling
\* (it lies before the loop position); when the run has aborted on a download
\* or tagging error, the activities completed earlier are marked processed
\* and the failing activity and all later ones are what select_activities
\* returns to the next run.
C13_FailureAbortsAtActivity ==
    media.phase = "media" =>
        LET acts == media.activities
            done == {acts[i].id : i \in 1..(media.idx - 1)}
            rest == {acts[i].id : i \in media.idx..Len(acts)}
        IN /\ \A r \in db.activities :
                r.id \in media.selected => (r.processed <=> r.id \in done)
           /\ pc = "failed" =>
                /\ error # ""
                /\ media.idx <= Len(acts)
                /\ Unprocessed(db) = rest
                /\ \A id \in done : id \notin Unprocessed(db)

C13_Witness ==
    /\ media.phase = "media" /\ pc = "failed"
    /\ Len(media.activities) = 3
    /\ media.idx = 2
    /\ media.dl_count = 1

----------------------------------------------------------------------------
(* Further properties of the store *)

\* C14: a row that is marked processed is left as it is (same payload, same
\* flag) by every call of the store and is not returned by
\* select_activities afterwards, unless the call is delete_activities for
\* the row's student; in particular insert_activity of its identifier and
\* update_activity change nothing of it.
C14_ProcessedStaysProcessed ==
    [][\A r \in db.activities :
         r.processed =>
            \/ /\ r \in db'.activities
               /\ r.id \notin Unprocessed(db')
            \/ /\ call'.op = "delete_activities"
               /\ call'.id = r.student_id]_vars

C14_Witness ==
    /\ call.op = "insert_activity"
    /\ call.present
    /\ \E r \in db.activities : r.id = call.id /\ r.processed
    /\ \E r \in db.activities : r.id # call.id /\ ~r.processed

----------------------------------------------------------------------------
(* Further properties of the metadata run *)

\* Client.__init__ has returned in this run
ClientConstructed == run.phase = "metadata" /\ run.user_id # ""

\* C15: the store never holds more than one token per login, and once the
\* client of a metadata run is constructed the token stored for the login
\* is the client's session token: the token of a fresh login (forced or
\* not) has replaced any older stored one, and an adopted token is the
\* stored one.
C15_StoredTokenIsSessionToken ==
    /\ \A l \in Logins : Cardinality({r \in db.auth : r.login = l}) <= 1
    /\ ClientConstructed =>
          select_cookie(db, run.login) = session_auth(run)

\* the step of dl_metadata from the resolved student to the page loop
ResolvedStep == pc = "students" /\ pc' = "page"

\* C16: in a metadata run activity rows are removed only by the step that
\* follows fetch_student_id, only with the clear flag set; at that step the
\* client is constructed, exactly one student of the answer matches the
\* argument and no page has been requested; the step removes every row of
\* that student, processed or not, and keeps the rows of the other students
\* and the stored tokens; without the flag it removes nothing.
C16_DeleteOnlyWhenClearing ==
    [][/\ ~ResolvedStep => db.activities \subseteq db'.activities
       /\ ResolvedStep =>
            /\ ClientConstructed
            /\ Cardinality({i \in DOMAIN run'.students :
                    StrIn(run.student, FullName(run'.students[i]))}) = 1
            /\ run'.student_id # ""
            /\ \A i \in DOMAIN net' : net'[i].url # "students/activities"
            /\ db'.auth = db.auth
            /\ db'.activities =
                 IF run.clear_events
                 THEN {r \in db.activities : r.student_id # run'.student_id}
                 ELSE db.activities]_vars

C16_Witness ==
    /\ pc = "page" /\ run.page = 0
    /\ run.clear_events
    /\ db.auth # {}
    /\ \E r \in run.activities0 :
          r.processed /\ r.student_id = run.student_id /\ r \notin db.activities
    /\ \E r \in db.activities : r.student_id # run.student_id

====
